---- MODULE Spec2Model ----
(***************************************************************************)
(* Model of rusty-snake (src/src/main.rs): the Controller state, the       *)
(* per-tick step (handle_events, continue_game_logic), the input capture   *)
(* thread, the tick scheduler thread and the main loop.                    *)
(***************************************************************************)
EXTENDS Integers, Sequences, FiniteSets, TLC

(***************************************************************************)
(* Program constants.                                                      *)
(***************************************************************************)
CANVAS_WIDTH == 46
CANVAS_HEIGHT == 46
\* APPLE.len()
APPLE_LEN == 2

(***************************************************************************)
(* Bounds of the model.                                                    *)
(***************************************************************************)
\* Events the input capture thread reads in Spec, SpecLive and SpecLock.
MaxEvents == 2
\* Events the input capture thread reads in SpecGame.
GameEvents == 3
\* Arrow keys the input capture thread reads in SpecTurns: the four turns
\* of a snake that runs into its own last segment.
TurnEvents == 4
\* Events the input capture thread reads in SpecEdge.
EdgeEvents == 2
\* Sleeps of the tick scheduler that end in SpecGame and SpecTurns.
MaxTicks == 6
\* Sleeps of the tick scheduler that end in SpecEdge.
EdgeTicks == 14
\* rand::random::<u16>() is drawn from RandBase .. RandBase + RandSpan
\* in SpecGame, SpecTurns and SpecEdge (x from RandBaseX, y from RandBaseY).
RandSpan == 1
\* rand::random::<usize>() for the apple kind is drawn from 0 .. MaxKindRand.
MaxKindRand == 0

(***************************************************************************)
(* Values.                                                                 *)
(***************************************************************************)
Directions == {"Up", "Down", "Left", "Right", "Stop"}

\* event::Event values: key events by key code, mouse events, resize events.
KeyEvent(code) == [kind |-> "Key", code |-> code]
MouseEvent == [kind |-> "Mouse", code |-> "-"]
ResizeEvent == [kind |-> "Resize", code |-> "-"]

\* Option::None for last_event and for apple.
None == [kind |-> "None", code |-> "-"]
NoApple == [present |-> FALSE, pos |-> <<0, 0>>, kind |-> 0]
Some_apple(pos, k) == [present |-> TRUE, pos |-> pos, kind |-> k]

Last(s) == s[Len(s)]

\* slice::rotate_right(k) for 0 <= k <= Len(s)
rotate_right(s, k) ==
    SubSeq(s, Len(s) - k + 1, Len(s)) \o SubSeq(s, 1, Len(s) - k)

(***************************************************************************)
(* Controller after construction in main.                                  *)
(***************************************************************************)
InitController ==
    [ should_close |-> FALSE,
      last_event   |-> None,
      snake        |-> [ elements |-> << <<CANVAS_WIDTH \div 4,
                                           CANVAS_HEIGHT \div 4 - 1>> >>,
                         current_direction |-> "Stop" ],
      apple        |-> NoApple,
      score        |-> 0,
      losed        |-> FALSE ]

(***************************************************************************)
(* handle_events: the body of the match on one popped event.               *)
(***************************************************************************)
\* handle_one that stores the test of the quit key instead of latching it.
handle_one_unlatched(c, e) ==
    CASE e.kind = "Key" ->
            [c EXCEPT !.should_close = (e.code = "q"),
                      !.last_event = e]
      [] e.kind = "Mouse" -> [c EXCEPT !.last_event = e]
      [] OTHER -> c

handle_one(c, e) ==
    CASE e.kind = "Key" ->
            [c EXCEPT !.should_close = IF e.code = "q" THEN TRUE ELSE @,
                      !.last_event = e]
      [] e.kind = "Mouse" -> [c EXCEPT !.last_event = e]
      [] OTHER -> c

\* while let Some(e) = queue.pop(): Vec::pop takes the LAST element, so the
\* queue is consumed from its most recently pushed end.
RECURSIVE drain(_, _)
drain(c, queue) ==
    IF queue = <<>> THEN c
    ELSE drain(handle_one(c, Last(queue).event),
               SubSeq(queue, 1, Len(queue) - 1))

handle_events(c, queue) == drain(c, queue)

(***************************************************************************)
(* continue_game_logic, block by block.                                    *)
(***************************************************************************)
\* apply_direction without the guards against a reversal.
apply_direction_unguarded(c) ==
    LET d == c.snake.current_direction
        e == c.last_event
        nd == IF e.kind = "Key" /\ e.code \in {"Up", "Down", "Left", "Right"}
              THEN e.code ELSE d
    IN [c EXCEPT !.snake.current_direction = nd]

\* lines 192-201: the direction intent of last_event.
apply_direction(c) ==
    LET d == c.snake.current_direction
        e == c.last_event
        nd == IF e.kind # "Key" THEN d
              ELSE CASE e.code = "Up" /\ d # "Down" -> "Up"
                     [] e.code = "Down" /\ d # "Up" -> "Down"
                     [] e.code = "Left" /\ d # "Right" -> "Left"
                     [] e.code = "Right" /\ d # "Left" -> "Right"
                     [] OTHER -> d
    IN [c EXCEPT !.snake.current_direction = nd]

\* move_head without the guard x > 0 of the Left arm.
move_head_unguarded(p, d) ==
    LET x == p[1]
        y == p[2]
    IN CASE d = "Left" -> [pos |-> <<x - 1, y>>, losed |-> FALSE]
         [] d = "Right" /\ x < CANVAS_WIDTH \div 2 - 2 ->
                [pos |-> <<x + 1, y>>, losed |-> FALSE]
         [] d = "Up" /\ y > 0 -> [pos |-> <<x, y - 1>>, losed |-> FALSE]
         [] d = "Down" /\ y < CANVAS_HEIGHT \div 2 - 3 ->
                [pos |-> <<x, y + 1>>, losed |-> FALSE]
         [] OTHER -> [pos |-> p, losed |-> TRUE]

\* move_head on a grid one cell wider and one cell higher.
move_head_wide(p, d) ==
    LET x == p[1]
        y == p[2]
    IN CASE d = "Left" /\ x > 0 -> [pos |-> <<x - 1, y>>, losed |-> FALSE]
         [] d = "Right" /\ x < CANVAS_WIDTH \div 2 - 1 ->
                [pos |-> <<x + 1, y>>, losed |-> FALSE]
         [] d = "Up" /\ y > 0 -> [pos |-> <<x, y - 1>>, losed |-> FALSE]
         [] d = "Down" /\ y < CANVAS_HEIGHT \div 2 - 2 ->
                [pos |-> <<x, y + 1>>, losed |-> FALSE]
         [] OTHER -> [pos |-> p, losed |-> TRUE]

\* lines 221-227: the move of the new first element, or losed.
move_head(p, d) ==
    LET x == p[1]
        y == p[2]
    IN CASE d = "Left" /\ x > 0 -> [pos |-> <<x - 1, y>>, losed |-> FALSE]
         [] d = "Right" /\ x < CANVAS_WIDTH \div 2 - 2 ->
                [pos |-> <<x + 1, y>>, losed |-> FALSE]
         [] d = "Up" /\ y > 0 -> [pos |-> <<x, y - 1>>, losed |-> FALSE]
         [] d = "Down" /\ y < CANVAS_HEIGHT \div 2 - 3 ->
                [pos |-> <<x, y + 1>>, losed |-> FALSE]
         [] OTHER -> [pos |-> p, losed |-> TRUE]

\* advance that drops the last element instead of rotating it to the front.
advance_dropping(c) ==
    IF c.snake.current_direction = "Stop" THEN c
    ELSE LET first_element == c.snake.elements[1]
             m == move_head(first_element, c.snake.current_direction)
         IN [c EXCEPT !.snake.elements =
                        <<m.pos>> \o SubSeq(@, 1, Len(@) - 2),
                      !.losed = IF m.losed THEN TRUE ELSE @]

\* advance that moves the first element and leaves the others in place.
advance_head_only(c) ==
    IF c.snake.current_direction = "Stop" THEN c
    ELSE LET m == move_head(c.snake.elements[1], c.snake.current_direction)
         IN [c EXCEPT !.snake.elements[1] = m.pos,
                      !.losed = IF m.losed THEN TRUE ELSE @]

\* advance without line 217: the rotated last element is moved as the head.
advance_from_last(c) ==
    IF c.snake.current_direction = "Stop" THEN c
    ELSE LET rotated == rotate_right(c.snake.elements, 1)
             m == move_head(rotated[1], c.snake.current_direction)
         IN [c EXCEPT !.snake.elements = [rotated EXCEPT ![1] = m.pos],
                      !.losed = IF m.losed THEN TRUE ELSE @]

\* lines 203-228: rotate, overwrite the first element, move it.
advance(c) ==
    IF c.snake.current_direction = "Stop" THEN c
    ELSE LET first_element == c.snake.elements[1]
             rotated == rotate_right(c.snake.elements, 1)
             m == move_head(first_element, c.snake.current_direction)
         IN [c EXCEPT !.snake.elements = [rotated EXCEPT ![1] = m.pos],
                      !.losed = IF m.losed THEN TRUE ELSE @]

\* apple_collision that grows the snake by a copy of its head.
apple_collision_head(c) ==
    IF c.apple.present /\ c.apple.pos = c.snake.elements[1]
    THEN [c EXCEPT !.apple = NoApple,
                   !.score = @ + 1,
                   !.snake.elements = Append(@, @[1])]
    ELSE c

\* apple_collision that grows the snake without counting the apple.
apple_collision_uncounted(c) ==
    IF c.apple.present /\ c.apple.pos = c.snake.elements[1]
    THEN [c EXCEPT !.apple = NoApple,
                   !.snake.elements = Append(@, Last(@))]
    ELSE c

\* lines 230-237: the snake collides with the apple.
apple_collision(c) ==
    IF c.apple.present /\ c.apple.pos = c.snake.elements[1]
    THEN [c EXCEPT !.apple = NoApple,
                   !.score = @ + 1,
                   !.snake.elements = Append(@, Last(@))]
    ELSE c

\* place_apple that places the first apple only.
place_apple_once(c, rx, ry, rk) ==
    IF ~c.apple.present /\ c.score = 0
    THEN [c EXCEPT !.apple =
            Some_apple(<<rx % (CANVAS_WIDTH \div 2 - 1),
                         ry % (CANVAS_HEIGHT \div 2 - 2)>>,
                       rk % APPLE_LEN)]
    ELSE c

\* lines 239-250: place a new apple from three random numbers.
place_apple(c, rx, ry, rk) ==
    IF ~c.apple.present
    THEN [c EXCEPT !.apple =
            Some_apple(<<rx % (CANVAS_WIDTH \div 2 - 1),
                         ry % (CANVAS_HEIGHT \div 2 - 2)>>,
                       rk % APPLE_LEN)]
    ELSE c

\* self_collision that skips index 0 only.
self_collision_from_one(c) ==
    IF \E i \in 2..Len(c.snake.elements) :
           c.snake.elements[i] = c.snake.elements[1]
    THEN [c EXCEPT !.losed = TRUE]
    ELSE c

\* lines 252-261: the first element collides with an element of index >= 2
\* (0-based), that is of index >= 3 in the 1-based sequence.
self_collision(c) ==
    IF \E i \in 3..Len(c.snake.elements) :
           c.snake.elements[i] = c.snake.elements[1]
    THEN [c EXCEPT !.losed = TRUE]
    ELSE c

continue_game_logic(c, rx, ry, rk) ==
    self_collision(place_apple(apple_collision(advance(apply_direction(c))),
                               rx, ry, rk))

\* game_step without the test of losed.
game_step_always(c, rx, ry, rk) == continue_game_logic(c, rx, ry, rk)

\* lines 344-349: the body of the for loop after handle_events.
\* draw and show_endscreen only read the controller.
game_step(c, rx, ry, rk) ==
    IF ~c.losed THEN continue_game_logic(c, rx, ry, rk) ELSE c


(***************************************************************************)
(* Inputs: the events the input source can produce, and the random draws.  *)
(***************************************************************************)
ArrowEvents == {KeyEvent("Up"), KeyEvent("Down"), KeyEvent("Left"),
                KeyEvent("Right")}
AllEvents == ArrowEvents \cup {KeyEvent("q"), KeyEvent("x"), MouseEvent,
                               ResizeEvent}

\* The events read by the input capture thread in the threaded
\* specification: one of each arm of the match in handle_events, and two
\* arrow keys.
ThreadEvents == {KeyEvent("Up"), KeyEvent("Left"), KeyEvent("q"), MouseEvent,
                 ResizeEvent}

\* The start cell of the snake, as drawn random numbers.
RandBaseX == CANVAS_WIDTH \div 4
RandBaseY == CANVAS_HEIGHT \div 4 - 1
GameRandX == RandBaseX .. RandBaseX + RandSpan
GameRandY == RandBaseY .. RandBaseY + RandSpan
KindRand == 0 .. MaxKindRand
\* One draw of the apple kind, for the specifications of the threads,
\* where the kind of the apple plays no part.
OneKind == {0}
\* Spec, SpecLive and SpecLock draw the start cell only.
EdgeRandX == {RandBaseX}
EdgeRandY == {RandBaseY}

(***************************************************************************)
(* State.                                                                  *)
(***************************************************************************)
VARIABLES
    game_controller,  \* the Controller of main (without its queue)
    event_queue,      \* Arc<Mutex<Vec<Event>>>: the Vec, oldest first
    mutex,            \* the threads that hold the queue's lock
    tick_rx,          \* ticks handed to the main loop and not yet taken
    pc_main,          \* position of the main loop
    pc_input,         \* position of the input capture thread
    pc_tick,          \* position of the tick scheduler thread
    event,            \* the event the input thread has read and not pushed
    nread,            \* number of events read from the input source
    removed,          \* removed[i]: how many times event i was popped
    ticks,            \* sleeps of the scheduler ended (where bounded)
    sent,             \* the Result of the latest try_send
    position          \* the latest call of TerminalSpace::from

vars == <<game_controller, event_queue, mutex, tick_rx, pc_main, pc_input,
          pc_tick, event, nread, removed, ticks, sent, position>>

NoEvent == [id |-> 0, event |-> None]

\* No call of TerminalSpace::from yet.
NoPosition ==
    [pc |-> "idle", size |-> <<0, 0>>, canvas_space |-> <<0, 0>>,
     terminal_space |-> <<0, 0>>]

Init ==
    /\ position = NoPosition
    /\ game_controller = InitController
    /\ event_queue = <<>>
    /\ mutex = {}
    /\ tick_rx = 0
    /\ pc_main = "start"
    /\ pc_input = "poll"
    /\ pc_tick = "sleep"
    /\ event = NoEvent
    /\ nread = 0
    /\ removed = [i \in {} |-> 0]
    /\ ticks = 0
    /\ sent = "none"

\* main has returned, Ok(()) after the break or the Err of a ? in the loop:
\* the process ends and the two spawned threads with it.
returned(pc) == pc \in {"done", "err"}

(***************************************************************************)
(* Mutex<Vec<Event>>::lock and the drop of its guard.                      *)
(***************************************************************************)
\* A lock that is granted whoever holds it.
can_lock_always(holders) == TRUE

can_lock(holders) == holders = {}

(***************************************************************************)
(* Input capture thread, lines 321-331.                                    *)
(***************************************************************************)
\* event::poll returned true and event::read returned e, one of the bound
\* events that arrive in all.
InputRead(E, bound) ==
    /\ ~returned(pc_main)
    /\ pc_input = "poll"
    /\ nread < bound
    /\ \E e \in E :
          event' = [id |-> nread + 1, event |-> e]
    /\ nread' = nread + 1
    /\ removed' = [i \in 1..(nread + 1) |-> IF i <= nread THEN removed[i] ELSE 0]
    /\ pc_input' = "lock"
    /\ UNCHANGED <<game_controller, event_queue, mutex, tick_rx, pc_main,
                   pc_tick, ticks, sent,
                   position>>

\* event_queue.as_ref().lock() returns the guard.
InputLock ==
    /\ ~returned(pc_main)
    /\ pc_input = "lock"
    /\ can_lock(mutex)
    /\ mutex' = mutex \cup {"input"}
    /\ pc_input' = "push"
    /\ UNCHANGED <<game_controller, event_queue, tick_rx, pc_main, pc_tick,
                   event, nread, removed, ticks, sent,
                   position>>

\* queue.push(event); break; the guard is dropped.
InputPush ==
    /\ ~returned(pc_main)
    /\ pc_input = "push"
    /\ event_queue' = Append(event_queue, event)
    /\ event' = NoEvent
    /\ mutex' = mutex \ {"input"}
    /\ pc_input' = "poll"
    /\ UNCHANGED <<game_controller, tick_rx, pc_main, pc_tick, nread,
                   removed, ticks, sent,
                   position>>

(***************************************************************************)
(* Tick scheduler thread, lines 334-339.                                   *)
(***************************************************************************)
\* SyncSender::try_send on the channel of bound 0: the value is handed over
\* only to a receiver that is blocked in recv and has not been handed one.
\* try_send on a channel that buffers the value when no receiver waits.
try_send_buffered(pending, receiving) ==
    [pending |-> pending + 1, result |-> "Ok"]

try_send(pending, receiving) ==
    IF receiving /\ pending = 0
    THEN [pending |-> pending + 1, result |-> "Ok"]
    ELSE [pending |-> pending, result |-> "Err"]

TickSleep ==
    /\ ~returned(pc_main)
    /\ pc_tick = "sleep"
    /\ pc_tick' = "send"
    /\ UNCHANGED <<game_controller, event_queue, mutex, tick_rx, pc_main,
                   pc_input, event, nread, removed, ticks, sent,
                   position>>

TickSend ==
    /\ ~returned(pc_main)
    /\ pc_tick = "send"
    /\ LET r == try_send(tick_rx, pc_main = "recv")
       IN /\ tick_rx' = r.pending
          /\ sent' = r.result
    /\ pc_tick' = "sleep"
    /\ UNCHANGED <<game_controller, event_queue, mutex, pc_main, pc_input,
                   event, nread, removed, ticks,
                   position>>

(***************************************************************************)
(* Main loop, lines 341-354.                                               *)
(***************************************************************************)
\* for _ in tick_rx, reached with both threads spawned: the first call of
\* recv, which blocks.
MainStart ==
    /\ pc_main = "start"
    /\ pc_main' = "recv"
    /\ UNCHANGED <<game_controller, event_queue, mutex, tick_rx, pc_input,
                   pc_tick, event, nread, removed, ticks, sent,
                   position>>

\* for _ in tick_rx: the blocked recv returns the tick handed over.
MainRecv ==
    /\ pc_main = "recv"
    /\ tick_rx > 0
    /\ tick_rx' = tick_rx - 1
    /\ pc_main' = "lock"
    /\ UNCHANGED <<game_controller, event_queue, mutex, pc_input, pc_tick,
                   event, nread, removed, ticks, sent,
                   position>>

\* handle_events: controller.event_queue.as_ref().lock()
MainLock ==
    /\ pc_main = "lock"
    /\ can_lock(mutex)
    /\ mutex' = mutex \cup {"main"}
    /\ pc_main' = "drain"
    /\ UNCHANGED <<game_controller, event_queue, tick_rx, pc_input, pc_tick,
                   event, nread, removed, ticks, sent,
                   position>>

\* handle_events: the while let loop pops the queue empty.
MainDrain ==
    /\ pc_main = "drain"
    /\ game_controller' = handle_events(game_controller, event_queue)
    /\ removed' = [i \in DOMAIN removed |->
                     removed[i] + Cardinality({k \in DOMAIN event_queue :
                                                  event_queue[k].id = i})]
    /\ event_queue' = <<>>
    /\ pc_main' = "unlock"
    /\ UNCHANGED <<mutex, tick_rx, pc_input, pc_tick, event, nread, ticks, sent,
                   position>>

\* handle_events: the guard is dropped at the end of the if let.
MainUnlock ==
    /\ pc_main = "unlock"
    /\ mutex' = mutex \ {"main"}
    /\ pc_main' = "logic"
    /\ UNCHANGED <<game_controller, event_queue, tick_rx, pc_input, pc_tick,
                   event, nread, removed, ticks, sent,
                   position>>

\* A loop that also ends once the game is lost.
break_if_lost(c) == c.should_close \/ c.losed

\* lines 351-353: if game_controller.should_close { break; }
break(c) == c.should_close

\* What draw or show_endscreen returns: Ok(()), or the Err of a failed
\* terminal::size() or of a failed write to stdout.
DrawResults == {"Ok", "Err"}

\* lines 346-353: the ? on the result of draw or show_endscreen returns
\* from main with the Err; otherwise break if should_close.
after_draw(c, result) ==
    IF result = "Err" THEN "err"
    ELSE IF break(c) THEN "done" ELSE "recv"

\* lines 344-353: the game step, its frame, then break if should_close.
MainLogic(RX, RY, RK) ==
    /\ pc_main = "logic"
    /\ game_controller' \in
          {game_step(game_controller, rx, ry, rk) :
             rx \in RX, ry \in RY, rk \in RK}
    /\ \E result \in DrawResults :
          pc_main' = after_draw(game_controller', result)
    /\ UNCHANGED <<event_queue, mutex, tick_rx, pc_input, pc_tick, event,
                   nread, removed, ticks, sent,
                   position>>

(***************************************************************************)
(* The tick scheduler thread of a game of bounded length.                  *)
(***************************************************************************)
\* thread::sleep(100 ms) returns, one of the bound sleeps that end in all.
TickDue(bound) ==
    /\ ~returned(pc_main)
    /\ pc_tick = "sleep"
    /\ ticks < bound
    /\ ticks' = ticks + 1
    /\ pc_tick' = "send"
    /\ UNCHANGED <<game_controller, event_queue, mutex, tick_rx, pc_main,
                   pc_input, event, nread, removed, sent,
                   position>>

(***************************************************************************)
(* Specifications.                                                         *)
(***************************************************************************)
\* The three threads.
Next ==
    \/ InputRead(ThreadEvents, MaxEvents)
    \/ InputLock
    \/ InputPush
    \/ TickSleep
    \/ TickSend
    \/ MainStart
    \/ MainRecv
    \/ MainLock
    \/ MainDrain
    \/ MainUnlock
    \/ MainLogic(EdgeRandX, EdgeRandY, OneKind)

Spec == Init /\ [][Next]_vars

\* The three threads in a game of MaxTicks ticks at most: any event, and
\* apples drawn on the cells around the start cell.
NextGame ==
    \/ InputRead(AllEvents, GameEvents)
    \/ InputLock
    \/ InputPush
    \/ TickDue(MaxTicks)
    \/ TickSend
    \/ MainStart
    \/ MainRecv
    \/ MainLock
    \/ MainDrain
    \/ MainUnlock
    \/ MainLogic(GameRandX, GameRandY, KindRand)

SpecGame == Init /\ [][NextGame]_vars

\* The same with the arrow keys only and one key more: the snake can turn
\* four times.
NextTurns ==
    \/ InputRead(ArrowEvents, TurnEvents)
    \/ InputLock
    \/ InputPush
    \/ TickDue(MaxTicks)
    \/ TickSend
    \/ MainStart
    \/ MainRecv
    \/ MainLock
    \/ MainDrain
    \/ MainUnlock
    \/ MainLogic(GameRandX, GameRandY, KindRand)

SpecTurns == Init /\ [][NextTurns]_vars

\* The same with a longer run: the snake reaches the four borders of the
\* grid.
NextEdge ==
    \/ InputRead(AllEvents, EdgeEvents)
    \/ InputLock
    \/ InputPush
    \/ TickDue(EdgeTicks)
    \/ TickSend
    \/ MainStart
    \/ MainRecv
    \/ MainLock
    \/ MainDrain
    \/ MainUnlock
    \/ MainLogic(GameRandX, GameRandY, KindRand)

SpecEdge == Init /\ [][NextEdge]_vars

\* The three threads, each of them scheduled again and again: the main
\* loop and the scheduler keep running, and a thread that holds the lock
\* of the queue goes on to release it.
SpecLive ==
    /\ Spec
    /\ WF_vars(TickSleep)
    /\ WF_vars(TickSend)
    /\ WF_vars(MainStart)
    /\ WF_vars(MainRecv)
    /\ WF_vars(MainLock)
    /\ WF_vars(MainDrain)
    /\ WF_vars(MainUnlock)
    /\ WF_vars(MainLogic(EdgeRandX, EdgeRandY, OneKind))
    /\ WF_vars(InputLock)
    /\ WF_vars(InputPush)

(***************************************************************************)
(* Properties of the per-tick step.                                        *)
(***************************************************************************)
elements == game_controller.snake.elements
current_direction == game_controller.snake.current_direction
head == elements[1]

\* A step of the main loop that runs continue_game_logic.
LogicStep == pc_main = "logic" /\ pc_main' # "logic" /\ ~game_controller.losed

Opposite(d) ==
    CASE d = "Up" -> "Down"
      [] d = "Down" -> "Up"
      [] d = "Left" -> "Right"
      [] d = "Right" -> "Left"
      [] OTHER -> "none"

\* The last cell of each axis the snake can stand on.
GridMaxX == CANVAS_WIDTH \div 2 - 2
GridMaxY == CANVAS_HEIGHT \div 2 - 3

\* C1: a step whose last observed event is the arrow key opposite to the
\* current direction leaves the direction unchanged, and no step of the
\* program turns the direction into its opposite.
C1_NoReversal ==
    [][ /\ (LogicStep /\ game_controller.last_event.kind = "Key"
             /\ game_controller.last_event.code = Opposite(current_direction))
           => game_controller'.snake.current_direction = current_direction
        /\ game_controller'.snake.current_direction
             # Opposite(current_direction) ]_vars

\* The step has run with Down as last observed event while moving Up.
C1_Witness ==
    /\ pc_main = "recv"
    /\ ~game_controller.losed
    /\ ticks >= 2
    /\ game_controller.last_event = KeyEvent("Down")
    /\ current_direction = "Up"

\* C2: when the head after the advance is on the apple, the step adds 1 to
\* the score, lengthens the snake by one element, a copy of the last one of
\* the advanced snake, and the apple left by the step is one placed by it
\* on a cell of the grid; otherwise score and length are unchanged and the
\* apple, if there was one, is still the same.
C2_Growth ==
    [][ LogicStep =>
          LET m == advance(apply_direction(game_controller))
              after == game_controller'.snake.elements
              n == Len(elements)
          IN IF /\ game_controller.apple.present
                /\ after[1] = game_controller.apple.pos
             THEN /\ game_controller'.score = game_controller.score + 1
                  /\ Len(after) = n + 1
                  /\ SubSeq(after, 1, n) = m.snake.elements
                  /\ after[n + 1] = after[n]
                  /\ game_controller'.apple.present
                  /\ game_controller'.apple.pos
                       \in (0..(CANVAS_WIDTH \div 2 - 2))
                             \X (0..(CANVAS_HEIGHT \div 2 - 3))
             ELSE /\ game_controller'.score = game_controller.score
                  /\ Len(after) = n
                  /\ game_controller.apple.present
                       => game_controller'.apple = game_controller.apple
        ]_vars

\* A moving snake that has eaten twice, the new apple on another cell.
C2_Witness ==
    /\ game_controller.score = 2
    /\ Len(elements) = 3
    /\ current_direction # "Stop"
    /\ elements[1] # elements[2]
    /\ ~game_controller.losed
    /\ game_controller.apple.present
    /\ \A i \in 1..3 : game_controller.apple.pos # elements[i]

InGrid(p) == p[1] >= 0 /\ p[1] <= GridMaxX /\ p[2] >= 0 /\ p[2] <= GridMaxY

AtBorder(p, d) ==
    \/ d = "Left" /\ p[1] = 0
    \/ d = "Up" /\ p[2] = 0
    \/ d = "Right" /\ p[1] = GridMaxX
    \/ d = "Down" /\ p[2] = GridMaxY

\* C3: a step towards a border the head already stands on sets losed and
\* leaves the head where it is, and every segment is always inside the grid.
C3_Boundary ==
    /\ [][ (LogicStep /\ AtBorder(head,
               apply_direction(game_controller).snake.current_direction))
           => /\ game_controller'.losed
              /\ game_controller'.snake.elements[1] = head ]_vars
    /\ [](\A i \in 1..Len(elements) : InGrid(elements[i]))

\* The snake has run into the left border.
C3_Witness ==
    /\ game_controller.losed
    /\ current_direction = "Left"
    /\ head[1] = 0

\* The cell the head steps into, when the step moves it.
Moves(c) ==
    /\ apply_direction(c).snake.current_direction # "Stop"
    /\ ~AtBorder(c.snake.elements[1],
                 apply_direction(c).snake.current_direction)
NextCell(c) ==
    move_head(c.snake.elements[1],
              apply_direction(c).snake.current_direction).pos

\* C4 as stated: with length >= 4, stepping into the cell of any segment
\* of index >= 2, the last one included, sets losed.
C4_Original ==
    [][ (LogicStep /\ Moves(game_controller) /\ Len(elements) >= 4
          /\ \E i \in 3..Len(elements) :
                elements[i] = NextCell(game_controller))
        => game_controller'.losed ]_vars

\* C4, amended: a step that moves the head sets losed exactly when the cell
\* stepped into is that of a segment other than the head and the last one
\* (whose cell the advance leaves); and after a step that does not run into
\* a border, moving or stopped, a head that shares its cell with segment 1
\* only is not lost.
C4_SelfCollision ==
    /\ [][ (LogicStep /\ Moves(game_controller))
           => (game_controller'.losed
                 <=> \E i \in 2..(Len(elements) - 1) :
                        elements[i] = NextCell(game_controller)) ]_vars
    /\ [][ (LogicStep
            /\ ~AtBorder(head,
                   apply_direction(game_controller).snake.current_direction))
           => LET after == game_controller'.snake.elements
              IN (/\ Len(after) >= 2
                  /\ after[2] = after[1]
                  /\ \A i \in 3..Len(after) : after[i] # after[1])
                 => ~game_controller'.losed ]_vars

\* A snake of length 5 has stepped into the cell of its 4th segment.
C4_Witness ==
    /\ game_controller.losed
    /\ Len(elements) = 5
    /\ elements[1] = elements[5]
    /\ elements[1] # elements[2]
    /\ elements[1] # elements[3]
    /\ elements[1] # elements[4]

\* C5: once losed is set it stays set, and the snake, the apple and the
\* score no longer change.
C5_LostTerminal ==
    [][ game_controller.losed
        => /\ game_controller'.losed
           /\ game_controller'.snake = game_controller.snake
           /\ game_controller'.apple = game_controller.apple
           /\ game_controller'.score = game_controller.score ]_vars

\* A tick with the Up key has been processed after the game was lost
\* with the snake still stopped.
C5_Witness ==
    /\ game_controller.losed
    /\ pc_main = "recv"
    /\ current_direction = "Stop"
    /\ game_controller.last_event = KeyEvent("Up")

\* C6: the snake always has at least one element and no step shortens it.
C6_NeverShrinks ==
    /\ [](Len(elements) >= 1)
    /\ [][Len(game_controller'.snake.elements) >= Len(elements)]_vars

\* A snake of three elements has advanced.
C6_Witness ==
    /\ Len(elements) = 3
    /\ current_direction # "Stop"
    /\ elements[1] # elements[2]
    /\ elements[2] # elements[3]

(***************************************************************************)
(* Properties of the threads.                                              *)
(***************************************************************************)
\* A step of the main loop that drains the queue.
DrainStep == pc_main = "drain" /\ pc_main' = "unlock"

\* Where event i is: in the hand of the input thread, in the queue, popped.
Copies(i) ==
    (IF event.id = i THEN 1 ELSE 0)
    + Cardinality({k \in DOMAIN event_queue : event_queue[k].id = i})
    + removed[i]

\* C7: every event read is in exactly one place (held by the input thread
\* before its push, in the queue, or popped by a drain) and is popped at
\* most once, and the queue is empty when the main loop drops the guard.
C7_EventsOnce ==
    /\ [](\A i \in 1..nread : Copies(i) = 1 /\ removed[i] <= 1)
    /\ [][(pc_main = "unlock" /\ pc_main' = "logic")
          => event_queue = <<>>]_vars

\* Two events were read, pushed and popped, and the guard is released.
C7_Witness ==
    /\ nread = 2
    /\ removed[1] = 1
    /\ removed[2] = 1
    /\ pc_main = "logic"
    /\ mutex = {}

\* C8: a try_send while the main loop is not blocked in recv hands nothing
\* over and returns at once, ticks are handed over only to a main loop
\* blocked in recv, and at most one tick is ever pending.
C8_TickDropped ==
    /\ [][(pc_tick = "send" /\ pc_tick' = "sleep" /\ pc_main # "recv")
          => /\ tick_rx' = tick_rx
             /\ sent' = "Err"
             /\ pc_main' = pc_main]_vars
    /\ [][tick_rx' > tick_rx => (pc_main = "recv" /\ pc_tick = "send")]_vars
    /\ [](tick_rx <= 1)
    /\ []((pc_tick = "send" /\ ~returned(pc_main)) => ENABLED TickSend)

\* The scheduler is back to its sleep after a failed try_send, while the
\* main loop runs the game step.
C8_Witness ==
    /\ sent = "Err"
    /\ pc_tick = "sleep"
    /\ pc_main = "logic"
    /\ tick_rx = 0

KeyIdx(q) == {k \in DOMAIN q : q[k].event.kind = "Key"}
Max(S) == CHOOSE x \in S : \A y \in S : y <= x

\* C9 as stated: after a drain of several key events, last_event is the
\* most recently pushed of them.
C9_LatestKeyWins ==
    [][(DrainStep /\ Cardinality(KeyIdx(event_queue)) >= 2)
       => game_controller'.last_event
            = event_queue[Max(KeyIdx(event_queue))].event]_vars

QuitQueued ==
    \E k \in DOMAIN event_queue : event_queue[k].event = KeyEvent("q")

\* C10: a drain of a batch that holds the quit key sets should_close,
\* should_close is never cleared, the main loop takes no tick once it is
\* set and leaves the loop at the end of the iteration, and a quit key in
\* the queue leads to the end of the main loop.
C10_Quit ==
    /\ [][(DrainStep /\ QuitQueued) => game_controller'.should_close]_vars
    /\ [][game_controller.should_close
          => game_controller'.should_close]_vars
    /\ [](game_controller.should_close
          => pc_main \in {"unlock", "logic", "done", "err"})
    /\ [][(game_controller.should_close /\ pc_main = "logic")
          => pc_main' \in {"logic", "done", "err"}]_vars
    /\ (QuitQueued ~> returned(pc_main))

\* The main loop has ended on a batch whose oldest event was not the
\* quit key.
C10_Witness ==
    /\ pc_main = "done"
    /\ game_controller.should_close
    /\ game_controller.last_event = KeyEvent("Up")

(***************************************************************************)
(* The step that eats the apple.                                           *)
(***************************************************************************)
\* The cells place_apple can draw.
SpawnCells == (0..(CANVAS_WIDTH \div 2 - 2)) \X (0..(CANVAS_HEIGHT \div 2 - 3))

\* The snake of length 1 and score 0 steps into the cell of the apple.
EatsFirstApple ==
    /\ LogicStep
    /\ Len(elements) = 1
    /\ game_controller.score = 0
    /\ Moves(game_controller)
    /\ game_controller.apple.present
    /\ game_controller.apple.pos = NextCell(game_controller)

\* C11 as stated: the step of a snake of length 1 and score 0 into the cell
\* of the apple ends with score 1, length 2 and no apple.
C11_Original ==
    [][ EatsFirstApple
          => /\ game_controller'.score = 1
             /\ Len(game_controller'.snake.elements) = 2
             /\ ~game_controller'.apple.present ]_vars

\* C11: the step of a snake of length 1 and score 0 into the cell of the
\* apple ends with score 1 and length 2, both segments on the cell of the
\* eaten apple, and with a new apple already placed on a cell of the grid.
C11_EatAndRespawn ==
    [][ EatsFirstApple
          => /\ game_controller'.score = 1
             /\ game_controller'.snake.elements
                  = <<game_controller.apple.pos, game_controller.apple.pos>>
             /\ game_controller'.apple.present
             /\ game_controller'.apple.pos \in SpawnCells ]_vars

\* The moving snake has just eaten its first apple and a new one is there.
C11_Witness ==
    /\ pc_main = "recv"
    /\ game_controller.score = 1
    /\ Len(elements) = 2
    /\ elements[1] = elements[2]
    /\ elements[1] # <<CANVAS_WIDTH \div 4, CANVAS_HEIGHT \div 4 - 1>>
    /\ current_direction # "Stop"
    /\ game_controller.apple.present

(***************************************************************************)
(* The advance of the snake.                                               *)
(***************************************************************************)
\* The cell next to p in direction d.
Neighbour(p, d) ==
    CASE d = "Left" -> <<p[1] - 1, p[2]>>
      [] d = "Right" -> <<p[1] + 1, p[2]>>
      [] d = "Up" -> <<p[1], p[2] - 1>>
      [] d = "Down" -> <<p[1], p[2] + 1>>
      [] OTHER -> p

\* The cell of the snake at the start, lines 304-318.
StartCell == <<11, 10>>

\* The distance of two cells, in steps along the axes.
Distance(p, q) ==
    (IF p[1] >= q[1] THEN p[1] - q[1] ELSE q[1] - p[1])
      + (IF p[2] >= q[2] THEN p[2] - q[2] ELSE q[2] - p[2])

\* C12: a step with a direction other than Stop whose target cell is in the
\* grid moves the head one cell in that direction and gives every segment
\* i >= 1 that was there before the step the previous cell of segment i - 1;
\* so the head is never further from (11, 10) than the number of ticks, and
\* a snake that has not eaten and stands on (16, 10) after 5 ticks is there
\* with Right applied on each of them, with length 1 and not lost.
C12_Advance ==
    /\ [][ (LogicStep /\ Moves(game_controller))
           => LET after == game_controller'.snake.elements
                  d == game_controller'.snake.current_direction
              IN /\ after[1] = Neighbour(head, d)
                 /\ d # "Stop"
                 /\ \A i \in 2..Len(elements) : after[i] = elements[i - 1]
         ]_vars
    /\ [](Distance(head, StartCell) <= ticks)
    /\ []( (ticks <= 5 /\ head = <<16, 10>> /\ game_controller.score = 0)
           => /\ ticks = 5
              /\ elements = << <<16, 10>> >>
              /\ current_direction = "Right"
              /\ ~game_controller.losed )

\* Five ticks after the start the snake of length 1 stands on (16, 10).
C12_Witness ==
    /\ pc_main = "recv"
    /\ ticks = 5
    /\ elements = << <<16, 10>> >>
    /\ current_direction = "Right"
    /\ ~game_controller.losed

(***************************************************************************)
(* The end of the main loop.                                               *)
(***************************************************************************)
\* The end of one iteration of the for loop.
IterationEnd == pc_main = "logic" /\ pc_main' # "logic"

\* C13 as stated: an iteration that ends with losed set leaves the loop.
C13_Original ==
    [][ (IterationEnd /\ game_controller'.losed) => returned(pc_main') ]_vars

\* C13: losed does not end the loop. An iteration whose frame is drawn goes
\* back to recv when should_close is not set and breaks when it is, lost or
\* not; the only other way out is the Err of a failed draw.
C13_ExitOnQuitOnly ==
    /\ [][ IterationEnd
           => /\ pc_main' \in {"recv", "done", "err"}
              /\ pc_main' = "recv" => ~game_controller'.should_close
              /\ pc_main' = "done" => game_controller'.should_close ]_vars
    /\ [](pc_main = "done" => game_controller.should_close)

\* The game is lost, no quit key was seen, and the loop is draining the
\* queue on a later tick.
C13_Witness ==
    /\ game_controller.losed
    /\ ~game_controller.should_close
    /\ pc_main = "drain"

(***************************************************************************)
(* impl From<CanvasSpace> for TerminalSpace, lines 54-67.                  *)
(***************************************************************************)
\* A subtraction that goes below zero.
plain_sub(a, b) == a - b

\* u16::saturating_sub
saturating_sub(a, b) == IF a >= b THEN a - b ELSE 0

\* The conversion, with the (width, height) that terminal::size returns.
\* The sums are u32: with a u16 size and a cell of the grid they stay far
\* below 2^32.
from(canvas_space, size) ==
    LET terminal_width == size[1]
        terminal_height == size[2]
    IN << saturating_sub(terminal_width \div 2, CANVAS_WIDTH \div 2)
            + canvas_space[1] * 2 + 1,
          saturating_sub(terminal_height \div 2, CANVAS_HEIGHT \div 4)
            + canvas_space[2] + 1 >>

\* Terminal sizes: smaller than the canvas, around its size, the usual
\* 80 x 24, and the largest u16.
TerminalWidths == {0, 1, 44, 45, 46, 47, 48, 49, 80, 81, 65534, 65535}
TerminalHeights == {0, 1, 20, 21, 22, 23, 24, 25, 26, 65534, 65535}

\* The cells a snake element or an apple can be on.
CanvasCells ==
    (0..(CANVAS_WIDTH \div 2 - 2)) \X (0..(CANVAS_HEIGHT \div 2 - 3))

\* A call of the conversion is entered with a cell and a terminal size.
InitDraw ==
    /\ game_controller = InitController
    /\ event_queue = <<>>
    /\ mutex = {}
    /\ tick_rx = 0
    /\ pc_main = "recv"
    /\ pc_input = "poll"
    /\ pc_tick = "sleep"
    /\ event = NoEvent
    /\ nread = 0
    /\ removed = [i \in {} |-> 0]
    /\ ticks = 0
    /\ sent = "none"
    /\ \E p \in CanvasCells, w \in TerminalWidths, h \in TerminalHeights :
          position = [pc |-> "call", size |-> <<w, h>>, canvas_space |-> p,
                      terminal_space |-> <<0, 0>>]

\* The call returns the TerminalSpace.
From ==
    /\ position.pc = "call"
    /\ position' = [position EXCEPT
                      !.pc = "return",
                      !.terminal_space = from(position.canvas_space,
                                              position.size)]
    /\ UNCHANGED <<game_controller, event_queue, mutex, tick_rx, pc_main,
                   pc_input, pc_tick, event, nread, removed, ticks, sent>>

NextDraw == From

SpecDraw == InitDraw /\ [][NextDraw]_vars

\* C14: the conversion of cell (x, y) on a terminal of size (w, h) returns
\* max(0, w/2 - 46/2) + 2x + 1 and max(0, h/2 - 46/4) + y + 1, a value fixed
\* by (x, y, w, h) alone, and (18, 2) for cell (0, 0) on a terminal of
\* 80 x 24.
C14_ToDisplay ==
    (position.pc = "return"
          => LET x == position.canvas_space[1]
                 y == position.canvas_space[2]
                 w == position.size[1]
                 h == position.size[2]
                 offx == w \div 2 - 46 \div 2
                 offy == h \div 2 - 46 \div 4
             IN /\ position.terminal_space[1]
                     = (IF offx > 0 THEN offx ELSE 0) + 2 * x + 1
                /\ position.terminal_space[2]
                     = (IF offy > 0 THEN offy ELSE 0) + y + 1
                /\ (x = 0 /\ y = 0 /\ w = 80 /\ h = 24)
                      => position.terminal_space = <<18, 2>>)

\* The conversion has returned for cell (0, 0) on a terminal of 80 x 24.
C14_Witness ==
    /\ position.pc = "return"
    /\ position.canvas_space = <<0, 0>>
    /\ position.size = <<80, 24>>
    /\ position.terminal_space = <<18, 2>>

(***************************************************************************)
(* The extent of the grid.                                                 *)
(***************************************************************************)
\* The range [0, CANVAS_WIDTH/2 - 1] x [0, CANVAS_HEIGHT/2 - 2].
StatedMaxX == CANVAS_WIDTH \div 2 - 1
StatedMaxY == CANVAS_HEIGHT \div 2 - 2
StatedCells == (0..StatedMaxX) \X (0..StatedMaxY)

\* Values of the two u16 random numbers: the small ones, past one period
\* of the remainder, and the largest.
RandomU16 == (0..CANVAS_WIDTH) \cup {65534, 65535}

\* The step runs into the border: a direction is set and the head stays.
BorderHit ==
    /\ LogicStep
    /\ game_controller'.snake.current_direction # "Stop"
    /\ game_controller'.snake.elements[1] = head

\* On the grid with last column maxx and last row maxy, Right and Down run
\* into the border exactly on the last column and row.
GridStep(maxx, maxy) ==
    LogicStep
      => LET d == game_controller'.snake.current_direction
         IN /\ d = "Right" => (BorderHit <=> head[1] = maxx)
            /\ d = "Down" => (BorderHit <=> head[2] = maxy)
            /\ BorderHit => game_controller'.losed

\* An apple is on the grid, and a new one is placed on the grid and can be
\* placed on every cell of it.
GridApple(maxx, maxy) ==
    /\ game_controller.apple.present
         => game_controller.apple.pos \in (0..maxx) \X (0..maxy)
    /\ (pc_main = "logic" /\ ~game_controller.apple.present)
         => /\ \A p \in (0..maxx) \X (0..maxy) :
                 \E rx \in {p[1], p[1] + maxx + 1},
                    ry \in {p[2], p[2] + maxy + 1} :
                    place_apple(game_controller, rx, ry, 0).apple.pos = p
            /\ \A rx \in RandomU16, ry \in RandomU16 :
                 place_apple(game_controller, rx, ry, 0).apple.pos
                   \in (0..maxx) \X (0..maxy)

\* C15 as stated: the grid is [0, 22] x [0, 21].
C15_Original ==
    /\ [][GridStep(StatedMaxX, StatedMaxY)]_vars
    /\ []GridApple(StatedMaxX, StatedMaxY)

\* C15: the grid is [0, CANVAS_WIDTH/2 - 2] x [0, CANVAS_HEIGHT/2 - 3], that
\* is [0, 21] x [0, 20]: Right runs into the border exactly at x = 21, Down
\* exactly at y = 20, and an apple is placed on any cell of this range and
\* on no other.
C15_Grid ==
    /\ [][GridStep(CANVAS_WIDTH \div 2 - 2, CANVAS_HEIGHT \div 2 - 3)]_vars
    /\ []GridApple(CANVAS_WIDTH \div 2 - 2, CANVAS_HEIGHT \div 2 - 3)
    /\ [](CANVAS_WIDTH \div 2 - 2 = 21 /\ CANVAS_HEIGHT \div 2 - 3 = 20)

\* The snake has run into the right border on column 21.
C15_Witness ==
    /\ game_controller.losed
    /\ current_direction = "Right"
    /\ head[1] = 21
    /\ pc_main = "recv"

(***************************************************************************)
(* Steps that must not move the snake.                                     *)
(***************************************************************************)
\* C16: a step whose move would leave the grid leaves every segment of the
\* snake on its cell.
C16_BorderFreezesSnake ==
    [][ (LogicStep /\ AtBorder(head,
            apply_direction(game_controller).snake.current_direction))
        => game_controller'.snake.elements = elements ]_vars

\* C17: while the direction is Stop and the step applies no arrow key, the
\* step leaves the elements of the snake and the score as they are and does
\* not set losed, wherever the apple is.
C17_StoppedIsFrozen ==
    [][ (LogicStep
         /\ apply_direction(game_controller).snake.current_direction = "Stop")
        => /\ game_controller'.snake.elements = elements
           /\ game_controller'.score = game_controller.score
           /\ ~game_controller'.losed ]_vars

(***************************************************************************)
(* The lock of the event queue.                                            *)
(***************************************************************************)
\* The lock is held by one thread at most, by the input thread only while
\* it pushes, by the main loop only while it drains.
LockDiscipline ==
    /\ Cardinality(mutex) <= 1
    /\ "input" \in mutex <=> pc_input = "push"
    /\ "main" \in mutex <=> pc_main \in {"drain", "unlock"}
    /\ pc_input \in {"poll", "lock"} => "input" \notin mutex
    /\ pc_main \in {"start", "recv", "lock", "logic", "done", "err"}
         => "main" \notin mutex

\* Whoever holds the lock can go on and release it without the other thread.
HolderProceeds ==
    /\ "input" \in mutex => ENABLED InputPush \/ returned(pc_main)
    /\ "main" \in mutex => ENABLED MainDrain \/ ENABLED MainUnlock

\* The three threads with the two kinds of event the lock has to do with:
\* one the main loop only records, and the quit key that ends the process
\* while the input thread may be waiting.
LockEvents == {MouseEvent, KeyEvent("q")}

NextLock ==
    \/ InputRead(LockEvents, MaxEvents)
    \/ InputLock
    \/ InputPush
    \/ TickSleep
    \/ TickSend
    \/ MainStart
    \/ MainRecv
    \/ MainLock
    \/ MainDrain
    \/ MainUnlock
    \/ MainLogic(EdgeRandX, EdgeRandY, OneKind)

\* Every thread is scheduled again and again, and a thread that waits for
\* the lock gets it: the lock is free again and again for the whole time
\* the other thread sleeps in poll or in recv, far longer than a critical
\* section, so a waiting lock call is not passed over for ever.
SpecLock ==
    /\ Init /\ [][NextLock]_vars
    /\ WF_vars(TickSleep)
    /\ WF_vars(TickSend)
    /\ WF_vars(MainStart)
    /\ WF_vars(MainRecv)
    /\ WF_vars(MainDrain)
    /\ WF_vars(MainUnlock)
    /\ WF_vars(MainLogic(EdgeRandX, EdgeRandY, OneKind))
    /\ WF_vars(InputPush)
    /\ SF_vars(InputLock)
    /\ SF_vars(MainLock)

\* C18: the lock of the queue is held by one thread at most, by the input
\* thread only while it pushes (not in poll or read), by the main loop only
\* while it drains (not at the tick receive); the holder can always go on
\* to release it, and every lock call of either thread returns, unless the
\* process ends first.
C18_Lock ==
    /\ []LockDiscipline
    /\ []HolderProceeds
    /\ (pc_input = "lock") ~> (pc_input = "push" \/ returned(pc_main))
    /\ (pc_main = "lock") ~> (pc_main = "drain")

\* The main loop waits for the lock while the input thread pushes.
C18_Witness ==
    /\ pc_main = "lock"
    /\ pc_input = "push"
    /\ mutex = {"input"}

(***************************************************************************)
(* Shape of the snake.                                                     *)
(***************************************************************************)
\* C19: the snake has one element more than the score.
C19_LengthIsScorePlusOne == Len(elements) = game_controller.score + 1

\* The snake has eaten three apples.
C19_Witness ==
    /\ game_controller.score = 3
    /\ Len(elements) = 4

\* C20: two consecutive elements of the snake are on the same cell or on
\* cells next to each other.
C20_Contiguous ==
    \A i \in 1..(Len(elements) - 1) :
        Distance(elements[i], elements[i + 1]) <= 1

\* The snake of two elements has run into the upper border: its second
\* element was drawn onto the cell of the head.
C20_Witness ==
    /\ game_controller.losed
    /\ current_direction = "Up"
    /\ Len(elements) = 2
    /\ head[2] = 0
    /\ elements[2] = head

====
